---- MODULE Spec2Model ----
(***************************************************************************)
(* Daikin Alira integration: status fetch, the two polling loops (sensor   *)
(* and climate coordinators), the climate entity's readers and writers,    *)
(* and the host configuration flow.                                        *)
(*                                                                         *)
(* Hex strings are sequences of one-character strings.  Temperatures are   *)
(* fixed-point numbers counted in quarters of a degree Celsius, so that    *)
(* the half-degree grid, values off the grid and rounding ties all exist.  *)
(***************************************************************************)
EXTENDS Integers, Sequences, FiniteSets, TLC

\* ------------------------------------------------------------------ bounds
MaxKids == 2
MaxWrites == 1
MaxPolls == 1
MaxTempDeg == 36
MaxSubmits == 4

\* ------------------------------------------------------- temperature units
Deg(d) == d * 4
Half(d) == d * 4 + 2

MIN_TEMP == Deg(16)
MAX_TEMP == Deg(30)
TEMP_STEP == Deg(1) \div 2

\* ------------------------------------------------------------- hex strings
HexChars == <<"0","1","2","3","4","5","6","7","8","9","A","B","C","D","E","F">>

HexSet == {HexChars[i] : i \in 1..16}

HexVal(c) == (CHOOSE i \in 1..16 : HexChars[i] = c) - 1

\* bytes.fromhex: ValueError unless an even number of hex digits
FromHexOk(h) == Len(h) % 2 = 0 /\ \A i \in 1..Len(h) : h[i] \in HexSet

BytesFromHex(h) == [i \in 1..(Len(h) \div 2) |-> 16 * HexVal(h[2*i - 1]) + HexVal(h[2*i])]

RECURSIVE IntFromBytesLittle(_)
IntFromBytesLittle(bs) ==
    IF bs = <<>> THEN 0 ELSE bs[1] + 256 * IntFromBytesLittle(Tail(bs))

\* mutant: the two bytes in big-endian order
ToBytes2Big(raw) == <<raw \div 256, raw % 256>>

\* int.to_bytes(2, "little", signed=False)
ToBytes2Little(raw) == <<raw % 256, raw \div 256>>

RECURSIVE HexUpper(_)
HexUpper(bs) ==
    IF bs = <<>> THEN <<>>
    ELSE <<HexChars[(bs[1] \div 16) + 1], HexChars[(bs[1] % 16) + 1]>> \o HexUpper(Tail(bs))

\* Python round() of the fraction num/den (den > 0): ties go to the even integer
PyRound(num, den) ==
    LET fl == num \div den
        r2 == 2 * (num % den)
    IN  IF r2 < den THEN fl
        ELSE IF r2 > den THEN fl + 1
        ELSE IF fl % 2 = 0 THEN fl ELSE fl + 1

\* raw / scale as a float, in quarter degrees (scale is 1 or 2)
ScaledValue(raw, scale) == (raw * 4) \div scale

\* ------------------------------------------------------------ status nodes
NoValue == [some |-> FALSE, v |-> 0]
Some(x) == [some |-> TRUE, v |-> x]

Leaf(pn, pv) == [pn |-> pn, hasPv |-> TRUE, pv |-> pv, hasPch |-> FALSE, pch |-> <<>>]
BareNode(pn) == [pn |-> pn, hasPv |-> FALSE, pv |-> <<>>, hasPch |-> FALSE, pch |-> <<>>]
Container(pn, pch) == [pn |-> pn, hasPv |-> FALSE, pv |-> <<>>, hasPch |-> TRUE, pch |-> pch]

\* item.get("pch", [])
GetPch(item) == IF item.hasPch THEN item.pch ELSE <<>>

\* item.get("pv", default)
GetPv(item, default) == IF item.hasPv THEN item.pv ELSE default

\* next(item for item in node if item.get("pn") == seg): StopIteration when none
HasItem(node, seg) == \E i \in 1..Len(node) : node[i].pn = seg

FirstItem(node, seg) ==
    node[CHOOSE i \in 1..Len(node) :
            node[i].pn = seg /\ \A j \in 1..(i - 1) : node[j].pn # seg]

\* ------------------------------------------------------------ lookup maps
\* dict.get(key, default) on a map kept as a sequence of key/value pairs
MapHas(map, key) == \E i \in 1..Len(map) : map[i].k = key

MapGet(map, key, default) ==
    IF MapHas(map, key) THEN map[CHOOSE i \in 1..Len(map) : map[i].k = key].v ELSE default

\* {v: k for k, v in map.items()}: a later item overwrites an earlier one
ReverseMap(map) ==
    LET last(i) == \A j \in (i + 1)..Len(map) : map[j].v # map[i].v
        keep == {i \in 1..Len(map) : last(i)}
        RECURSIVE build(_)
        build(i) == IF i > Len(map) THEN <<>>
                    ELSE (IF i \in keep THEN <<[k |-> map[i].v, v |-> map[i].k]>> ELSE <<>>)
                         \o build(i + 1)
    IN  build(1)

HVAC_MODE_OFF == "off"
HVAC_MODE_AUTO == "auto"
HVAC_MODE_COOL == "cool"
HVAC_MODE_HEAT == "heat"
HVAC_MODE_FAN_ONLY == "fan_only"
HVAC_MODE_DRY == "dry"

SUPPORTED_HVAC_MODES ==
    <<HVAC_MODE_OFF, HVAC_MODE_AUTO, HVAC_MODE_COOL, HVAC_MODE_HEAT,
      HVAC_MODE_FAN_ONLY, HVAC_MODE_DRY>>

FAN_SPEED_MAP ==
    << [k |-> <<"0","3","0","0">>, v |-> "1"],
       [k |-> <<"0","4","0","0">>, v |-> "2"],
       [k |-> <<"0","5","0","0">>, v |-> "3"],
       [k |-> <<"0","6","0","0">>, v |-> "4"],
       [k |-> <<"0","7","0","0">>, v |-> "5"],
       [k |-> <<"0","A","0","0">>, v |-> "Auto"],
       [k |-> <<"0","B","0","0">>, v |-> "Quiet"] >>

FAN_SPEED_REVERSE_MAP == ReverseMap(FAN_SPEED_MAP)

MODE_MAP ==
    << [k |-> <<"0","3","0","0">>, v |-> HVAC_MODE_AUTO],
       [k |-> <<"0","2","0","0">>, v |-> HVAC_MODE_COOL],
       [k |-> <<"0","1","0","0">>, v |-> HVAC_MODE_HEAT],
       [k |-> <<"0","0","0","0">>, v |-> HVAC_MODE_FAN_ONLY],
       [k |-> <<"0","5","0","0">>, v |-> HVAC_MODE_DRY] >>

MODE_REVERSE_MAP == ReverseMap(MODE_MAP)

PowerOn == <<"0","1">>
PowerOff == <<"0","0">>

\* --------------------------------------------------- climate entity readers
\* DaikinClimate._get_power_value: any exception yields "00"
get_power_value(data) ==
    IF ~HasItem(data, "e_1002") THEN PowerOff
    ELSE LET level1 == FirstItem(data, "e_1002") IN
         IF ~HasItem(GetPch(level1), "e_A002") THEN PowerOff
         ELSE LET level2 == FirstItem(GetPch(level1), "e_A002") IN
              IF Len(GetPch(level2)) < 1 THEN PowerOff
              ELSE GetPv(GetPch(level2)[1], PowerOff)

\* mutant: the mode code is mapped without looking at the power value
hvac_mode_NoPower(data) ==
    IF ~HasItem(data, "e_1002") THEN HVAC_MODE_OFF
    ELSE LET level1 == FirstItem(data, "e_1002") IN
         IF ~HasItem(GetPch(level1), "e_3001") THEN HVAC_MODE_OFF
         ELSE LET level2 == FirstItem(GetPch(level1), "e_3001") IN
              IF Len(GetPch(level2)) < 1 THEN HVAC_MODE_OFF
              ELSE MapGet(MODE_MAP, GetPv(GetPch(level2)[1], <<>>), HVAC_MODE_OFF)

\* DaikinClimate.hvac_mode: any exception yields HVAC_MODE_OFF
hvac_mode(data) ==
    IF get_power_value(data) # PowerOn THEN HVAC_MODE_OFF
    ELSE IF ~HasItem(data, "e_1002") THEN HVAC_MODE_OFF
    ELSE LET level1 == FirstItem(data, "e_1002") IN
         IF ~HasItem(GetPch(level1), "e_3001") THEN HVAC_MODE_OFF
         ELSE LET level2 == FirstItem(GetPch(level1), "e_3001") IN
              IF Len(GetPch(level2)) < 1 THEN HVAC_MODE_OFF
              ELSE MapGet(MODE_MAP, GetPv(GetPch(level2)[1], <<>>), HVAC_MODE_OFF)

\* DaikinClimate.target_temperature: little-endian hex / 2.0, None on any exception
target_temperature(data) ==
    IF ~HasItem(data, "e_1002") THEN NoValue
    ELSE LET level1 == FirstItem(data, "e_1002") IN
         IF ~HasItem(GetPch(level1), "e_3001") THEN NoValue
         ELSE LET level2 == FirstItem(GetPch(level1), "e_3001") IN
              IF Len(GetPch(level2)) < 3 THEN NoValue
              ELSE LET hexstr == GetPv(GetPch(level2)[3], <<>>) IN
                   IF ~FromHexOk(hexstr) THEN NoValue
                   ELSE Some(ScaledValue(IntFromBytesLittle(BytesFromHex(hexstr)), 2))

\* ----------------------------------------------------------- sensor readers
\* BaseDaikinSensor._get_by_path: [] when a segment is not found
RECURSIVE get_by_path(_, _)
get_by_path(data, path_segments) ==
    IF path_segments = <<>> THEN data
    ELSE IF ~HasItem(data, Head(path_segments)) THEN <<>>
    ELSE get_by_path(GetPch(FirstItem(data, Head(path_segments))), Tail(path_segments))

\* BaseDaikinSensor._parse_hex_to_int: None when the string is not valid hex
parse_hex_to_int(hexstr, scale) ==
    IF ~FromHexOk(hexstr) THEN NoValue
    ELSE Some(ScaledValue(IntFromBytesLittle(BytesFromHex(hexstr)), scale))

\* DaikinSetpointSensor._get_value
SetpointValue(data) ==
    LET path == get_by_path(data, <<"e_1002", "e_3001">>) IN
    IF Len(path) >= 3 THEN parse_hex_to_int(GetPv(path[3], <<>>), 2) ELSE NoValue

\* ------------------------------------------------------------ write payloads
STATUS_PATH == "/dsiot/edge/adr_0100.dgc_status"

\* one "requests" item: op 3, dgc_status -> e_1002 -> entity -> {pn, pv}
SetRequest(entity, pn, pv) ==
    [op |-> 3, to |-> STATUS_PATH, path |-> <<"dgc_status", "e_1002", entity>>,
     pn |-> pn, pv |-> pv]

payload_off == <<SetRequest("e_A002", "p_01", PowerOff)>>

\* mutant: the mode sub-request ahead of the power sub-request
ModePayload_Swapped(mode_hex) ==
    <<SetRequest("e_3001", "p_01", mode_hex), SetRequest("e_A002", "p_01", PowerOn)>>

ModePayload(mode_hex) ==
    <<SetRequest("e_A002", "p_01", PowerOn), SetRequest("e_3001", "p_01", mode_hex)>>

\* mutant: the upper clamp is missing
ClampTemp_NoUpper(temp) == IF temp < MIN_TEMP THEN MIN_TEMP ELSE temp

\* async_set_temperature: clamp, raw_value = int(round(temp * 2))
ClampTemp(temp) ==
    IF temp < MIN_TEMP THEN MIN_TEMP ELSE IF temp > MAX_TEMP THEN MAX_TEMP ELSE temp

RawValue(temp) == PyRound(ClampTemp(temp) * 2, 4)

TempHex(temp) == HexUpper(ToBytes2Little(RawValue(temp)))

TempPayload(temp) == <<SetRequest("e_3001", "p_03", TempHex(temp))>>

FanPayload(fan_mode) ==
    <<SetRequest("e_3001", "p_0A", MapGet(FAN_SPEED_REVERSE_MAP, fan_mode, <<>>))>>

\* -------------------------------------------------------------- the device
\* The unit's registers, as the status tree reports them and a PUT sets them.
DeviceInit ==
    [power |-> PowerOff, mode |-> <<"0","3","0","0">>,
     temp |-> <<"2","C","0","0">>, fan |-> <<"0","A","0","0">>]

ApplyRequest(d, r) ==
    IF r.path[3] = "e_A002" /\ r.pn = "p_01" THEN [d EXCEPT !.power = r.pv]
    ELSE IF r.path[3] = "e_3001" /\ r.pn = "p_01" THEN [d EXCEPT !.mode = r.pv]
    ELSE IF r.path[3] = "e_3001" /\ r.pn = "p_03" THEN [d EXCEPT !.temp = r.pv]
    ELSE IF r.path[3] = "e_3001" /\ r.pn = "p_0A" THEN [d EXCEPT !.fan = r.pv]
    ELSE d

RECURSIVE ApplyPayload(_, _)
ApplyPayload(d, payload) ==
    IF payload = <<>> THEN d
    ELSE ApplyPayload(ApplyRequest(d, Head(payload)), Tail(payload))

Filler == <<"0","0">>

\* e_3001: child[0] mode, child[2] target temperature, child[8] fan speed
FullTree(d) ==
    << Container("e_1002",
        << Container("e_A002", <<Leaf("p_01", d.power)>>),
           Container("e_3001",
             << Leaf("p_01", d.mode), Leaf("p_02", Filler), Leaf("p_03", d.temp),
                Leaf("p_04", Filler), Leaf("p_05", Filler), Leaf("p_06", Filler),
                Leaf("p_07", Filler), Leaf("p_09", Filler), Leaf("p_0A", d.fan) >>),
           Container("e_A00B", <<Leaf("p_01", <<"1","6">>), Leaf("p_02", <<"3","2">>)>>) >>) >>

\* the same registers behind a first-level node that is not e_1002, and with
\* the e_3001 child list cut after the mode
ShortTree(d) ==
    << Container("e_1003", <<>>),
       Container("e_1002",
        << Container("e_A002", <<Leaf("p_01", d.power)>>),
           Container("e_3001", <<Leaf("p_01", d.mode)>>) >>) >>

\* e_1002 without its power entity
NoPowerTree(d) ==
    << Container("e_1002", <<Container("e_3001", <<Leaf("p_01", d.mode)>>)>>) >>

DeviceTrees(d) == {FullTree(d), ShortTree(d), NoPowerTree(d), <<>>}

\* ------------------------------------------------------------ fetch_status
\* One POST exchange: how it ended, and the JSON document when there is one.
\* The document is described by the types met along data["responses"][0]["pc"]["pch"].
Body(top, responses, first, pc, pch, tree) ==
    [top |-> top, responses |-> responses, first |-> first, pc |-> pc, pch |-> pch,
     tree |-> tree]

GoodBody(tree) == Body("obj", "list", "obj", "obj", "list", tree)

Exchange(kind, body) == [kind |-> kind, body |-> body]

BadBodies ==
    { Body("list", "absent", "absent", "absent", "absent", <<>>),
      Body("obj", "absent", "absent", "absent", "absent", <<>>),
      Body("obj", "null", "absent", "absent", "absent", <<>>),
      Body("obj", "empty", "absent", "absent", "absent", <<>>),
      Body("obj", "list", "null", "absent", "absent", <<>>),
      Body("obj", "list", "obj", "absent", "absent", <<>>),
      Body("obj", "list", "obj", "null", "absent", <<>>),
      Body("obj", "list", "obj", "list", "absent", <<>>),
      Body("obj", "list", "obj", "obj", "absent", <<>>) }

TransportKinds == {"timeout", "connect_error", "http_status", "content_type", "json_invalid"}

Exchanges(d) ==
    {Exchange(k, GoodBody(<<>>)) : k \in TransportKinds}
      \cup {Exchange("json", b) : b \in BadBodies}
      \cup {Exchange("json", GoodBody(t)) : t \in DeviceTrees(d)}

\* the exchanges the polling loops meet: a timeout, an HTTP error status, a document
\* with an empty "responses" list, and the unit's status trees
LoopExchanges(d) ==
    {Exchange("timeout", GoodBody(<<>>)), Exchange("http_status", GoodBody(<<>>)),
     Exchange("json", Body("obj", "empty", "absent", "absent", "absent", <<>>))}
      \cup {Exchange("json", GoodBody(t)) : t \in {FullTree(d), ShortTree(d)}}

\* the exception the exchange raises inside the try block, "none" when none
\* (session.post, raise_for_status, resp.json, then the subscripts)
RaisedInTry(x) ==
    IF x.kind = "timeout" THEN "TimeoutError"
    ELSE IF x.kind = "connect_error" THEN "ClientConnectorError"
    ELSE IF x.kind = "http_status" THEN "ClientResponseError"
    ELSE IF x.kind = "content_type" THEN "ContentTypeError"
    ELSE IF x.kind = "json_invalid" THEN "JSONDecodeError"
    ELSE LET b == x.body IN
         IF b.top # "obj" THEN "TypeError"
         ELSE IF b.responses = "absent" THEN "KeyError"
         ELSE IF b.responses = "null" THEN "TypeError"
         ELSE IF b.responses = "empty" THEN "IndexError"
         ELSE IF b.first # "obj" THEN "TypeError"
         ELSE IF b.pc = "absent" THEN "KeyError"
         ELSE IF b.pc # "obj" THEN "TypeError"
         ELSE IF b.pch = "absent" THEN "KeyError"
         ELSE "none"

\* except (aiohttp.ClientError, asyncio.TimeoutError, KeyError)
ClientErrors == {"ClientError", "ClientConnectorError", "ClientResponseError", "ContentTypeError"}

Caught(exc) == exc \in ClientErrors \cup {"TimeoutError", "KeyError"}

\* the result of the call: the exception that leaves it, and the value returned
fetch_status(x) ==
    LET exc == RaisedInTry(x) IN
    IF exc = "none" THEN [raised |-> "none", value |-> x.body.tree]
    ELSE IF Caught(exc) THEN [raised |-> "none", value |-> <<>>]
    ELSE [raised |-> exc, value |-> <<>>]

\* the status read did not deliver a status tree
FetchFailed(x) == RaisedInTry(x) # "none"

\* ===================================================== the integration state
VARIABLES
    dev,          \* the unit's registers
    sState,       \* sensor platform: "none", "pending", "registered", "failed"
    sData,        \* sensor coordinator.data
    sOk,          \* sensor coordinator.last_update_success
    sInit,        \* how the sensor platform's first fetch ended: "none", "ok", "failed"
    sLast,        \* how the latest interval poll's fetch ended: "none", "ok", "failed"
    cState,       \* climate platform: "none", "pending", "registered", "aborted"
    cData,        \* climate coordinator.data
    cOk,          \* climate coordinator.last_update_success
    cInit,        \* how the climate platform's first fetch ended
    cPc,          \* the entity's write call: "idle", "put", "fetch"
    call,         \* the latest write call and its arguments
    wire,         \* the PUT payloads this call has sent, in order
    putDone,      \* PUT attempts of this call that have completed
    putResult,    \* how this call's PUT ended: "none", "ok", "http_status", "connect_error"
    refreshReqs,  \* async_request_refresh calls of this call
    callRaised,   \* an exception left the latest write call
    pollRaised,   \* an exception left the latest interval poll
    writes,       \* write calls made so far
    polls,        \* interval polls made so far
    entries,      \* config flow: the configuration records created so far
    flowStep,     \* config flow: "idle", "form", "done"
    flowResult,   \* config flow: what the latest async_step_user call returned
    submits,      \* config flow: submissions made so far
    lastProbe,    \* config flow: the host submitted last and how its probe ended
    fExch,        \* status read: the POST exchange
    fRes,         \* status read: "pending", or what fetch_status returned or raised
    lc,           \* lifecycle: per configured host, where its entry stands
    entities,     \* lifecycle: the entities the platforms have added
    registry,     \* lifecycle: the device registry, one record per device
    tArg,         \* set-temperature codec: the temperature supplied
    tPc,          \* set-temperature codec: "new", "sent", "stored"
    tWire,        \* set-temperature codec: the payload built for the PUT
    tTree,        \* set-temperature codec: the status tree read back
    rData,        \* mode reader: the cached status tree
    rMode         \* mode reader: "unread" or the value of hvac_mode

mainVars ==
    <<dev, sState, sData, sOk, sInit, sLast, cState, cData, cOk, cInit, cPc, call,
      wire, putDone, putResult, refreshReqs, callRaised, pollRaised, writes, polls>>

flowVars == <<entries, flowStep, flowResult, submits, lastProbe>>

fetchVars == <<fExch, fRes>>

codecVars == <<tArg, tPc, tWire, tTree>>

readVars == <<rData, rMode>>

entryVars == <<lc, entities, registry>>

vars == <<mainVars, flowVars, codecVars, readVars, fetchVars, entryVars>>

NoCall == [op |-> "none", mode |-> "", temp |-> NoValue, fan |-> ""]

MainInit ==
    /\ dev = DeviceInit
    /\ sState = "none" /\ sData = <<>> /\ sOk = TRUE /\ sInit = "none" /\ sLast = "none"
    /\ cState = "none" /\ cData = <<>> /\ cOk = TRUE /\ cInit = "none"
    /\ cPc = "idle" /\ call = NoCall /\ wire = <<>>
    /\ putDone = 0 /\ putResult = "none" /\ refreshReqs = 0
    /\ callRaised = FALSE /\ pollRaised = FALSE
    /\ writes = 0 /\ polls = 0

\* the six entities sensor.async_setup_entry adds, by unique-id suffix
SensorSuffixes == {"setpoint", "indoor_temp", "indoor_humidity", "fan_speed", "mode", "power"}

SensorEntities == IF sState = "registered" THEN SensorSuffixes ELSE {}

\* the entity climate.async_setup_entry adds
ClimateEntities == IF cState = "registered" THEN {"climate"} ELSE {}

\* BaseDaikinSensor.available
available(suffix) == sOk

\* inputs the callers supply
HvacInputs == {SUPPORTED_HVAC_MODES[i] : i \in 1..Len(SUPPORTED_HVAC_MODES)} \cup {"turbo"}

FanInputs == {"Quiet", "Turbo"}

TempInputs == {NoValue, Some(Deg(10)), Some(Half(24))}

PutOutcomes == {"ok", "http_status", "connect_error"}

Outcome(x) == IF FetchFailed(x) THEN "failed" ELSE "ok"

\* __init__.async_setup_entry: forwards the entry to the sensor and the climate platform
async_setup_entry ==
    /\ sState = "none" /\ cState = "none"
    /\ sState' = "pending" /\ cState' = "pending"
    /\ UNCHANGED <<flowVars, codecVars, readVars, fetchVars, entryVars>>
    /\ UNCHANGED <<dev, sData, sOk, sInit, sLast, cData, cOk, cInit, cPc, call, wire,
                   putDone, putResult, refreshReqs, callRaised, pollRaised, writes, polls>>

\* sensor.async_setup_entry: the first refresh raises ConfigEntryNotReady when the
\* update method raised, and the six entities are added otherwise
SensorSetup ==
    /\ sState = "pending"
    /\ \E x \in LoopExchanges(dev) :
         LET r == fetch_status(x) IN
         /\ sInit' = Outcome(x)
         /\ IF r.raised # "none"
              THEN sState' = "failed" /\ sOk' = FALSE /\ sData' = sData
              ELSE sState' = "registered" /\ sOk' = TRUE /\ sData' = r.value
    /\ UNCHANGED <<flowVars, codecVars, readVars, fetchVars, entryVars>>
    /\ UNCHANGED <<dev, sLast, cState, cData, cOk, cInit, cPc, call, wire, putDone, putResult,
                   refreshReqs, callRaised, pollRaised, writes, polls>>

\* climate.async_setup_entry: a raising first refresh is logged and setup returns
ClimateSetup ==
    /\ cState = "pending"
    /\ \E x \in LoopExchanges(dev) :
         LET r == fetch_status(x) IN
         /\ cInit' = Outcome(x)
         /\ IF r.raised # "none"
              THEN cState' = "aborted" /\ cOk' = FALSE /\ cData' = cData
              ELSE cState' = "registered" /\ cOk' = TRUE /\ cData' = r.value
    /\ UNCHANGED <<flowVars, codecVars, readVars, fetchVars, entryVars>>
    /\ UNCHANGED <<dev, sState, sData, sOk, sInit, sLast, cPc, call, wire, putDone, putResult,
                   refreshReqs, callRaised, pollRaised, writes, polls>>

\* the sensor coordinator's 30-second refresh: an exception of the update method
\* is logged by the coordinator, which keeps its data and clears last_update_success
SensorPoll ==
    /\ sState = "registered"
    /\ polls < MaxPolls
    /\ \E x \in LoopExchanges(dev) :
         LET r == fetch_status(x) IN
         /\ sLast' = Outcome(x)
         /\ IF r.raised # "none"
              THEN sOk' = FALSE /\ sData' = sData
              ELSE sOk' = TRUE /\ sData' = r.value
    /\ pollRaised' = FALSE
    /\ polls' = polls + 1
    /\ UNCHANGED <<flowVars, codecVars, readVars, fetchVars, entryVars>>
    /\ UNCHANGED <<dev, sState, sInit, cState, cData, cOk, cInit, cPc, call, wire,
                   putDone, putResult, refreshReqs, callRaised, writes>>

\* a write call starts: either it returns at once or its PUT is on the wire
StartCall(c, payloads) ==
    /\ call' = c
    /\ wire' = payloads
    /\ cPc' = IF payloads = <<>> THEN "idle" ELSE "put"
    /\ putDone' = 0 /\ putResult' = "none" /\ refreshReqs' = 0 /\ callRaised' = FALSE
    /\ writes' = writes + 1
    /\ UNCHANGED <<flowVars, codecVars, readVars, fetchVars, entryVars>>
    /\ UNCHANGED <<dev, sState, sData, sOk, sInit, sLast, cState, cData, cOk, cInit,
                   pollRaised, polls>>

\* DaikinClimate.async_set_hvac_mode, up to the PUT
SetHvacMode ==
    /\ cState = "registered"
    /\ cPc = "idle"
    /\ writes < MaxWrites
    /\ \E m \in HvacInputs :
           StartCall([NoCall EXCEPT !.op = "set_hvac_mode", !.mode = m],
                     IF m = HVAC_MODE_OFF THEN <<payload_off>>
                     ELSE IF ~MapHas(MODE_REVERSE_MAP, m) THEN <<>>
                     ELSE <<ModePayload(MapGet(MODE_REVERSE_MAP, m, <<>>))>>)

\* DaikinClimate.async_set_temperature, up to the PUT
SetTemperature ==
    /\ cState = "registered"
    /\ cPc = "idle"
    /\ writes < MaxWrites
    /\ \E t \in TempInputs :
           StartCall([NoCall EXCEPT !.op = "set_temperature", !.temp = t],
                     IF ~t.some THEN <<>> ELSE <<TempPayload(t.v)>>)

\* mutant: the label is not checked against FAN_SPEED_REVERSE_MAP
SetFanMode_NoCheck ==
    /\ cState = "registered"
    /\ cPc = "idle"
    /\ writes < MaxWrites
    /\ \E f \in FanInputs :
           StartCall([NoCall EXCEPT !.op = "set_fan_mode", !.fan = f], <<FanPayload(f)>>)

\* DaikinClimate.async_set_fan_mode, up to the PUT
SetFanMode ==
    /\ cState = "registered"
    /\ cPc = "idle"
    /\ writes < MaxWrites
    /\ \E f \in FanInputs :
           StartCall([NoCall EXCEPT !.op = "set_fan_mode", !.fan = f],
                     IF ~MapHas(FAN_SPEED_REVERSE_MAP, f) THEN <<>> ELSE <<FanPayload(f)>>)

\* mutant: the refresh is requested only when the PUT succeeded
PutResponse_RefreshOnSuccess ==
    /\ cPc = "put"
    /\ \E o \in PutOutcomes :
         /\ putResult' = o
         /\ dev' = IF o = "ok" THEN ApplyPayload(dev, wire[Len(wire)]) ELSE dev
         /\ refreshReqs' = IF o = "ok" THEN refreshReqs + 1 ELSE refreshReqs
         /\ cPc' = IF o = "ok" THEN "fetch" ELSE "idle"
    /\ putDone' = putDone + 1
    /\ UNCHANGED <<flowVars, codecVars, readVars, fetchVars, entryVars>>
    /\ UNCHANGED <<sState, sData, sOk, sInit, sLast, cState, cData, cOk, cInit, call,
                   wire, callRaised, pollRaised, writes, polls>>

\* the PUT ends (a failure is logged inside the except clause), then the call asks
\* its coordinator for a refresh, whose POST is now on the wire
PutResponse ==
    /\ cPc = "put"
    /\ \E o \in PutOutcomes :
         /\ putResult' = o
         /\ dev' = IF o = "ok" THEN ApplyPayload(dev, wire[Len(wire)]) ELSE dev
    /\ putDone' = putDone + 1
    /\ refreshReqs' = refreshReqs + 1
    /\ cPc' = "fetch"
    /\ UNCHANGED <<flowVars, codecVars, readVars, fetchVars, entryVars>>
    /\ UNCHANGED <<sState, sData, sOk, sInit, sLast, cState, cData, cOk, cInit, call,
                   wire, callRaised, pollRaised, writes, polls>>

\* mutant: one cache for both surfaces, so the refresh also lands in the sensor loop
RefreshResponse_SharedCache ==
    /\ cPc = "fetch"
    /\ \E x \in LoopExchanges(dev) :
         LET r == fetch_status(x) IN
         IF r.raised # "none"
           THEN cOk' = FALSE /\ cData' = cData /\ sOk' = FALSE /\ sData' = sData
           ELSE cOk' = TRUE /\ cData' = r.value /\ sOk' = TRUE /\ sData' = r.value
    /\ cPc' = "idle"
    /\ UNCHANGED <<flowVars, codecVars, readVars, fetchVars, entryVars>>
    /\ UNCHANGED <<dev, sState, sInit, sLast, cState, cInit, call, wire,
                   putDone, putResult, refreshReqs, callRaised, pollRaised, writes, polls>>

\* the refresh's fetch ends and the write call returns
RefreshResponse ==
    /\ cPc = "fetch"
    /\ \E x \in LoopExchanges(dev) :
         LET r == fetch_status(x) IN
         IF r.raised # "none"
           THEN cOk' = FALSE /\ cData' = cData
           ELSE cOk' = TRUE /\ cData' = r.value
    /\ cPc' = "idle"
    /\ UNCHANGED <<flowVars, codecVars, readVars, fetchVars, entryVars>>
    /\ UNCHANGED <<dev, sState, sData, sOk, sInit, sLast, cState, cInit, call, wire,
                   putDone, putResult, refreshReqs, callRaised, pollRaised, writes, polls>>

MainNext ==
    \/ async_setup_entry
    \/ SensorSetup
    \/ ClimateSetup
    \/ SensorPoll
    \/ SetHvacMode
    \/ SetTemperature
    \/ SetFanMode
    \/ PutResponse
    \/ RefreshResponse

\* ================================================= host configuration flow
NoProbe == [host |-> "", raised |-> FALSE, status |-> 0]

NoResult == [type |-> "none", errors |-> "", title |-> <<>>, host |-> ""]

FlowInit ==
    /\ entries = <<>>
    /\ flowStep = "idle"
    /\ flowResult = NoResult
    /\ submits = 0
    /\ lastProbe = NoProbe

Hosts == {"192.168.1.20", "ac.local"}

\* how the probe GET http://<host>/ ends: a response with a status, or an exception
Probes ==
    {[raised |-> FALSE, status |-> st] : st \in {200, 204, 404, 500}}
      \cup {[raised |-> TRUE, status |-> 0]}

\* mutant: every status below 400 is accepted
ProbeFails_Only4xx(probe) == probe.raised \/ probe.status >= 400

\* the try block: an exception of the GET, or the one raised for a status other than 200
ProbeFails(probe) == probe.raised \/ probe.status # 200

\* async_show_form(step_id="user", errors=errors)
ShowForm(errors) == [type |-> "form", errors |-> errors, title |-> <<>>, host |-> ""]

\* async_create_entry(title=f"Daikin @ {host}", data=user_input)
CreateEntry(host) ==
    [type |-> "create_entry", errors |-> "", title |-> <<"Daikin @ ", host>>, host |-> host]

\* async_step_user(None): the form is shown without errors
FlowOpen ==
    /\ flowStep \in {"idle", "done"}
    /\ flowStep' = "form"
    /\ flowResult' = ShowForm("")
    /\ UNCHANGED <<entries, submits, lastProbe>>
    /\ UNCHANGED <<mainVars, codecVars, readVars, fetchVars, entryVars>>

\* async_step_user(user_input): probe the host, then create the entry or show the form again
FlowSubmit ==
    /\ flowStep = "form"
    /\ submits < MaxSubmits
    /\ \E host \in Hosts, probe \in Probes :
         /\ lastProbe' = [host |-> host, raised |-> probe.raised, status |-> probe.status]
         /\ IF ProbeFails(probe)
              THEN /\ flowResult' = ShowForm("cannot_connect")
                   /\ flowStep' = "form"
                   /\ entries' = entries
              ELSE /\ flowResult' = CreateEntry(host)
                   /\ flowStep' = "done"
                   /\ entries' = Append(entries, [title |-> <<"Daikin @ ", host>>, host |-> host])
    /\ submits' = submits + 1
    /\ UNCHANGED <<mainVars, codecVars, readVars, fetchVars, entryVars>>

FlowNext == FlowOpen \/ FlowSubmit

\* ==================================================== set-temperature codec
CodecIdle ==
    /\ tArg = MIN_TEMP
    /\ tPc = "new"
    /\ tWire = <<>>
    /\ tTree = <<>>

\* every temperature on the quarter-degree grid from -MaxTempDeg to MaxTempDeg
CodecInit ==
    /\ tArg \in (0 - Deg(MaxTempDeg))..Deg(MaxTempDeg)
    /\ tPc = "new"
    /\ tWire = <<>>
    /\ tTree = <<>>

\* async_set_temperature(temperature=tArg) builds its payload
CodecSend ==
    /\ tPc = "new"
    /\ tWire' = TempPayload(tArg)
    /\ tPc' = "sent"
    /\ UNCHANGED <<tArg, tTree>>
    /\ UNCHANGED <<mainVars, flowVars, readVars, fetchVars, entryVars>>

\* the unit stores the value and reports it in its next status tree
CodecStore ==
    /\ tPc = "sent"
    /\ tTree' = FullTree(ApplyPayload(DeviceInit, tWire))
    /\ tPc' = "stored"
    /\ UNCHANGED <<tArg, tWire>>
    /\ UNCHANGED <<mainVars, flowVars, readVars, fetchVars, entryVars>>

CodecNext == CodecSend \/ CodecStore

\* ============================================================= mode reader
\* pv values a leaf may carry: the two power values, two mode codes, an unmapped code
LeafValues ==
    {PowerOn, PowerOff, <<"0","2","0","0">>, <<"0","3","0","0">>, <<"F","F","F","F">>}

Leaves == {BareNode("p_01")} \cup {Leaf("p_01", pv) : pv \in LeafValues}

SeqsUpTo(S, n) == UNION {[1..k -> S] : k \in 0..n}

\* an entity: no child list, an empty one, or one child
Entities ==
    {BareNode(pn) : pn \in {"e_A002", "e_3001"}}
      \cup {Container(pn, <<>>) : pn \in {"e_A002", "e_3001"}}
      \cup {Container(pn, <<l>>) : pn \in {"e_A002", "e_3001"}, l \in Leaves}

\* a first-level node: e_1002 or another name, with up to MaxKids entities
TopNodes ==
    {BareNode(pn) : pn \in {"e_1002", "e_1003"}}
      \cup {Container(pn, kids) : pn \in {"e_1002", "e_1003"}, kids \in SeqsUpTo(Entities, MaxKids)}

\* the node alone, behind a node of another name, or ahead of a complete e_1002
SampleTrees ==
    {<<>>} \cup {<<n>> : n \in TopNodes}
      \cup {<<BareNode("e_1003"), n>> : n \in TopNodes}
      \cup {<<n>> \o FullTree([DeviceInit EXCEPT !.power = PowerOn]) : n \in TopNodes}

ReadIdle ==
    /\ rData = <<>>
    /\ rMode = "unread"

ReadInit ==
    /\ rData \in SampleTrees
    /\ rMode = "unread"

\* the entity's hvac_mode property is read
ReadHvacMode ==
    /\ rMode = "unread"
    /\ rMode' = hvac_mode(rData)
    /\ UNCHANGED rData
    /\ UNCHANGED <<mainVars, flowVars, codecVars, fetchVars, entryVars>>

ReadNext == ReadHvacMode

\* ============================================================= status read
Pending == [done |-> FALSE, raised |-> "none", value |-> <<>>]

FetchIdle ==
    /\ fExch = Exchange("json", GoodBody(<<>>))
    /\ fRes = Pending

\* register contents the unit may hold
DeviceStates ==
    {[DeviceInit EXCEPT !.power = pw, !.mode = MODE_MAP[i].k, !.temp = t] :
        pw \in {PowerOn, PowerOff}, i \in 1..Len(MODE_MAP),
        t \in {TempHex(Deg(16)), TempHex(Half(24)), TempHex(Deg(30))}}

FetchInit ==
    /\ fExch \in UNION {Exchanges(d) : d \in DeviceStates}
    /\ fRes = Pending

\* fetch_status(session, host) runs on the exchange
FetchCall ==
    /\ ~fRes.done
    /\ fRes' = [done |-> TRUE, raised |-> fetch_status(fExch).raised,
                value |-> fetch_status(fExch).value]
    /\ UNCHANGED fExch
    /\ UNCHANGED <<mainVars, flowVars, codecVars, readVars, entryVars>>

FetchNext == FetchCall

\* ======================================================= entry lifecycle
\* const.DOMAIN (DOMAIN is a reserved word here)
IntegrationDomain == "daikin_alira"

PLATFORMS == <<"sensor", "climate">>

\* hosts of the configured entries; the second ends the way the climate loop's name does
EntryHosts == {"ac.local", "ac.local-climate"}

\* sensor.async_setup_entry: name=f"{DOMAIN}-{host}"
SensorCoordinatorName(host) == IntegrationDomain \o "-" \o host

\* climate.async_setup_entry: name=f"{DOMAIN}-{host}-climate"
ClimateCoordinatorName(host) == IntegrationDomain \o "-" \o host \o "-climate"

\* BaseDaikinSensor.device_info: {(DOMAIN, self.coordinator.name)}
SensorDeviceIdentifiers(host) == {<<IntegrationDomain, SensorCoordinatorName(host)>>}

\* mutant: the climate entity names its device after its own coordinator
ClimateDeviceIdentifiers_LoopName(host) == {<<IntegrationDomain, ClimateCoordinatorName(host)>>}

\* DaikinClimate.device_info: {(DOMAIN, f"{DOMAIN}-{self.host}")}
ClimateDeviceIdentifiers(host) == {<<IntegrationDomain, IntegrationDomain \o "-" \o host>>}

\* f"{DOMAIN}_{coordinator.name}_{unique_suffix}"
SensorUniqueId(host, suffix) == IntegrationDomain \o "_" \o SensorCoordinatorName(host) \o "_" \o suffix

\* f"{DOMAIN}_{host}_climate"
ClimateUniqueId(host) == IntegrationDomain \o "_" \o host \o "_climate"

SensorEntitiesOf(host) ==
    {[platform |-> "sensor", host |-> host, uid |-> SensorUniqueId(host, sfx),
      identifiers |-> SensorDeviceIdentifiers(host)] : sfx \in SensorSuffixes}

ClimateEntitiesOf(host) ==
    {[platform |-> "climate", host |-> host, uid |-> ClimateUniqueId(host),
      identifiers |-> ClimateDeviceIdentifiers(host)]}

\* the registry keeps one device per identifier set that shares an identifier
\* with no other: an entity joins the device it shares an identifier with
Register(reg, ents) ==
    LET ids == UNION {e.identifiers : e \in ents}
        hit == {d \in reg : d.identifiers \cap ids # {}}
        merged == [identifiers |-> ids \cup UNION {d.identifiers : d \in hit},
                   uids |-> {e.uid : e \in ents} \cup UNION {d.uids : d \in hit}]
    IN  (reg \ hit) \cup {merged}

NotLoaded == [pc |-> "not_loaded", unloads |-> <<>>, returned |-> FALSE, ret |-> FALSE]

EntryIdle ==
    /\ lc = [h \in EntryHosts |-> NotLoaded]
    /\ entities = {}
    /\ registry = {}

\* __init__.async_setup_entry: both platform setups are scheduled, True is returned
EntrySetup ==
    \E h \in EntryHosts :
        /\ lc[h].pc = "not_loaded"
        /\ lc' = [lc EXCEPT ![h] = [NotLoaded EXCEPT !.pc = "loaded"]]
        /\ UNCHANGED <<entities, registry>>
        /\ UNCHANGED <<mainVars, flowVars, codecVars, readVars, fetchVars>>

\* sensor.async_setup_entry reaches async_add_entities
SensorAdd ==
    \E h \in EntryHosts :
        /\ lc[h].pc = "loaded"
        /\ SensorEntitiesOf(h) \cap entities = {}
        /\ entities' = entities \cup SensorEntitiesOf(h)
        /\ registry' = Register(registry, SensorEntitiesOf(h))
        /\ UNCHANGED lc
        /\ UNCHANGED <<mainVars, flowVars, codecVars, readVars, fetchVars>>

\* climate.async_setup_entry reaches async_add_entities
ClimateAdd ==
    \E h \in EntryHosts :
        /\ lc[h].pc = "loaded"
        /\ ClimateEntitiesOf(h) \cap entities = {}
        /\ entities' = entities \cup ClimateEntitiesOf(h)
        /\ registry' = Register(registry, ClimateEntitiesOf(h))
        /\ UNCHANGED lc
        /\ UNCHANGED <<mainVars, flowVars, codecVars, readVars, fetchVars>>

\* async_unload_entry is called and awaits the unload of PLATFORMS[0]
UnloadStart ==
    \E h \in EntryHosts :
        /\ lc[h].pc = "loaded"
        /\ lc' = [lc EXCEPT ![h] = [NotLoaded EXCEPT !.pc = "unload_0"]]
        /\ UNCHANGED <<entities, registry>>
        /\ UNCHANGED <<mainVars, flowVars, codecVars, readVars, fetchVars>>

\* a platform unload ends with True or False; a platform that unloaded loses its entities
PlatformUnloaded(h, i, ok) ==
    /\ lc' = [lc EXCEPT ![h].unloads = Append(@, [platform |-> PLATFORMS[i], ok |-> ok]),
                        ![h].pc = IF i = 1 THEN "unload_1" ELSE "not_loaded",
                        ![h].returned = (i = 2),
                        ![h].ret = (i = 2)]
    /\ entities' = IF ok THEN {e \in entities : ~(e.host = h /\ e.platform = PLATFORMS[i])}
                   ELSE entities
    /\ UNCHANGED registry
    /\ UNCHANGED <<mainVars, flowVars, codecVars, readVars, fetchVars>>

\* the unload of PLATFORMS[0] ends; async_unload_entry awaits the unload of PLATFORMS[1]
UnloadFirst ==
    \E h \in EntryHosts, ok \in BOOLEAN :
        /\ lc[h].pc = "unload_0"
        /\ PlatformUnloaded(h, 1, ok)

\* the unload of PLATFORMS[1] ends and async_unload_entry returns True
UnloadSecond ==
    \E h \in EntryHosts, ok \in BOOLEAN :
        /\ lc[h].pc = "unload_1"
        /\ PlatformUnloaded(h, 2, ok)

EntryNext == EntrySetup \/ SensorAdd \/ ClimateAdd \/ UnloadStart \/ UnloadFirst \/ UnloadSecond

\* =========================================================== specifications
Init == MainInit /\ FlowInit /\ CodecIdle /\ ReadIdle /\ FetchIdle /\ EntryIdle

Next == MainNext

Spec == Init /\ [][Next]_vars

InitFlow == MainInit /\ FlowInit /\ CodecIdle /\ ReadIdle /\ FetchIdle /\ EntryIdle

SpecFlow == InitFlow /\ [][FlowNext]_vars

InitCodec == MainInit /\ FlowInit /\ CodecInit /\ ReadIdle /\ FetchIdle /\ EntryIdle

SpecCodec == InitCodec /\ [][CodecNext]_vars

InitRead == MainInit /\ FlowInit /\ CodecIdle /\ ReadInit /\ FetchIdle /\ EntryIdle

SpecRead == InitRead /\ [][ReadNext]_vars

InitEntry == MainInit /\ FlowInit /\ CodecIdle /\ ReadIdle /\ FetchIdle /\ EntryIdle

SpecEntry == InitEntry /\ [][EntryNext]_vars

InitFetch == MainInit /\ FlowInit /\ CodecIdle /\ ReadIdle /\ FetchInit /\ EntryIdle

SpecFetch == InitFetch /\ [][FetchNext]_vars

\* ================================================================== claims
\* the write calls the claims call "reaching the network", by their inputs
MappedModes == {"auto", "cool", "heat", "fan_only", "dry"}

KnownFanLabels == {"1", "2", "3", "4", "5", "Auto", "Quiet"}

ReachesNetwork(c) ==
    \/ c.op = "set_hvac_mode" /\ c.mode \in {"off"} \cup MappedModes
    \/ c.op = "set_temperature" /\ c.temp.some
    \/ c.op = "set_fan_mode" /\ c.fan \in KnownFanLabels

Unsupported(c) == c.op # "none" /\ ~ReachesNetwork(c)

\* C1: after an interval poll whose status read failed, last_update_success is
\* false, each of the six sensor entities is unavailable, and no exception left
\* the poll.
C1_FailedPollUnavailable ==
    sLast = "failed" =>
        /\ ~sOk
        /\ \A e \in SensorEntities : ~available(e)
        /\ ~pollRaised

\* C2: a platform whose first status read failed registers no entity.
C2_FailedFirstFetchAborts ==
    /\ sInit = "failed" => SensorEntities = {}
    /\ cInit = "failed" => ClimateEntities = {}

\* C3: fetch_status never raises; it returns the empty sequence for every failed
\* status read and responses[0].pc.pch for a successful one.
C3_FetchNeverRaises ==
    fRes.done =>
        /\ fRes.raised = "none"
        /\ fRes.value =
             IF fExch.kind = "json" /\ fExch.body = GoodBody(fExch.body.tree)
               THEN fExch.body.tree ELSE <<>>

\* C4: a write call that reaches the network makes one PUT, asks for a refresh
\* only once that PUT has ended, asks exactly once whether the PUT succeeded or
\* failed, and lets no exception out.
C4_RefreshAfterEveryPut ==
    /\ refreshReqs <= putDone
    /\ ~callRaised
    /\ ReachesNetwork(call) =>
         /\ Len(wire) = 1
         /\ cPc = "put" => putDone = 0 /\ refreshReqs = 0 /\ putResult = "none"
         /\ cPc \in {"fetch", "idle"} =>
              putDone = 1 /\ refreshReqs = 1 /\ putResult \in PutOutcomes

C4_Witness ==
    /\ cPc = "idle"
    /\ ReachesNetwork(call)
    /\ putResult = "connect_error"
    /\ refreshReqs = 1

\* C5: a write call with an unsupported input (unknown fan label, unknown mode,
\* no temperature) returns at once: no PUT, no refresh request, and the cached
\* tree, its success flag and the unit's registers are as they were.
C5_UnsupportedNoEffect ==
    [][(writes' # writes /\ Unsupported(call')) =>
          /\ wire' = <<>> /\ putDone' = 0 /\ refreshReqs' = 0
          /\ cPc' = "idle"
          /\ cData' = cData /\ cOk' = cOk /\ dev' = dev]_vars

C5_Witness ==
    /\ call.op = "set_fan_mode" /\ call.fan = "Turbo"
    /\ cPc = "idle" /\ wire = <<>> /\ refreshReqs = 0

\* C6: hvac_mode is "off" unless the power value at e_1002 -> e_A002 -> child[0]
\* is "01"; then it is the Mode Map image of the code at e_1002 -> e_3001 ->
\* child[0], and "off" when that code is unmapped or cannot be read.
PowerIsOn(data) ==
    LET p == get_by_path(data, <<"e_1002", "e_A002">>) IN
    Len(p) >= 1 /\ p[1].hasPv /\ p[1].pv = <<"0","1">>

ModeCodeAt(data) ==
    LET m == get_by_path(data, <<"e_1002", "e_3001">>) IN
    IF Len(m) >= 1 /\ m[1].hasPv THEN m[1].pv ELSE <<>>

ModeOfCode(code) ==
    IF code = <<"0","3","0","0">> THEN "auto"
    ELSE IF code = <<"0","2","0","0">> THEN "cool"
    ELSE IF code = <<"0","1","0","0">> THEN "heat"
    ELSE IF code = <<"0","0","0","0">> THEN "fan_only"
    ELSE IF code = <<"0","5","0","0">> THEN "dry"
    ELSE "off"

C6_ModeFromTree ==
    rMode # "unread" =>
        /\ rMode \in {"off", "auto", "cool", "heat", "fan_only", "dry"}
        /\ rMode = IF PowerIsOn(rData) THEN ModeOfCode(ModeCodeAt(rData)) ELSE "off"

C6_Witness ==
    /\ rMode = "off"
    /\ ~PowerIsOn(rData)
    /\ ModeCodeAt(rData) = <<"0","2","0","0">>

\* C7: set-operation-mode "off" sends one PUT with the single sub-request
\* power = "00"; a mapped mode sends one PUT with power = "01" first and the
\* mode's code second; no call sends more than one PUT.
PowerRequest(pv) ==
    [op |-> 3, to |-> "/dsiot/edge/adr_0100.dgc_status",
     path |-> <<"dgc_status", "e_1002", "e_A002">>, pn |-> "p_01", pv |-> pv]

ModeRequest(pv) ==
    [op |-> 3, to |-> "/dsiot/edge/adr_0100.dgc_status",
     path |-> <<"dgc_status", "e_1002", "e_3001">>, pn |-> "p_01", pv |-> pv]

CodeOfMode(m) ==
    IF m = "auto" THEN <<"0","3","0","0">>
    ELSE IF m = "cool" THEN <<"0","2","0","0">>
    ELSE IF m = "heat" THEN <<"0","1","0","0">>
    ELSE IF m = "fan_only" THEN <<"0","0","0","0">>
    ELSE <<"0","5","0","0">>

OnHalfGrid(t) == t % 2 = 0 /\ t >= 16 * 4 /\ t <= 30 * 4

C8_TemperatureRoundTrip ==
    (tPc = "stored" /\ OnHalfGrid(tArg)) =>
        /\ Len(tWire[1].pv) = 4
        /\ SetpointValue(tTree) = Some(tArg)
        /\ target_temperature(tTree) = Some(tArg)

C8_Witness ==
    /\ tPc = "stored"
    /\ tArg = 24 * 4 + 2
    /\ tWire[1].pv = <<"3","1","0","0">>
    /\ SetpointValue(tTree) = Some(24 * 4 + 2)

\* C9: the raw value written to e_3001 -> p_03 lies in 32..60; a temperature
\* below 16.0 is sent as "2000" and one above 30.0 as "3C00".
SentRaw == IntFromBytesLittle(BytesFromHex(tWire[1].pv))

C9_Clamping ==
    tPc # "new" =>
        /\ Len(tWire) = 1
        /\ tWire[1].path = <<"dgc_status", "e_1002", "e_3001">> /\ tWire[1].pn = "p_03"
        /\ FromHexOk(tWire[1].pv)
        /\ SentRaw >= 32 /\ SentRaw <= 60
        /\ tArg <= 16 * 4 => tWire[1].pv = <<"2","0","0","0">>
        /\ tArg >= 30 * 4 => tWire[1].pv = <<"3","C","0","0">>

C9_Witness ==
    /\ tPc = "sent"
    /\ tArg = 35 * 4
    /\ tWire[1].pv = <<"3","C","0","0">>

\* C10: a configuration record is created only by a submission whose probe
\* returned status 200; any other submission creates none and shows the form
\* again with the error "cannot_connect", open for another submission.
ProbeWas200(p) == ~p.raised /\ p.status = 200

C10_ProbeGating ==
    [][/\ entries' # entries =>
            /\ submits' = submits + 1
            /\ ProbeWas200(lastProbe')
            /\ entries' = Append(entries, [title |-> <<"Daikin @ ", lastProbe'.host>>,
                                           host |-> lastProbe'.host])
       /\ (submits' # submits /\ ~ProbeWas200(lastProbe')) =>
            /\ entries' = entries
            /\ flowResult'.type = "form" /\ flowResult'.errors = "cannot_connect"
            /\ flowStep' = "form"
       /\ (submits' # submits /\ ProbeWas200(lastProbe')) =>
            /\ Len(entries') = Len(entries) + 1
            /\ flowResult'.type = "create_entry"]_vars

C10_Witness ==
    /\ submits = 2
    /\ Len(entries) = 1
    /\ flowResult.type = "create_entry"
    /\ lastProbe.status = 200

\* C11: the two polling loops are independent.  A step of a write call (its
\* start, its PUT, its refresh) leaves the sensor loop's tree and success flag
\* as they were; those change only in the sensor platform's first fetch or in
\* its interval poll.  The climate loop's tree and flag change only in the
\* climate platform's first fetch or in the refresh a write call requested,
\* and never in a sensor poll.
WriteCallStep == writes' # writes \/ cPc' # cPc \/ putDone' # putDone \/ refreshReqs' # refreshReqs

SensorFirstFetch == sState = "pending" /\ sState' # "pending"

SensorIntervalPoll == sState = "registered" /\ polls' = polls + 1

ClimateFirstFetch == cState = "pending" /\ cState' # "pending"

RefreshOfWrite == cPc = "fetch" /\ cPc' = "idle" /\ refreshReqs = 1 /\ putDone = 1

C12_UnloadReturnsBoth ==
    \A h \in EntryHosts :
        lc[h].returned =>
            /\ Len(lc[h].unloads) = 2
            /\ lc[h].unloads[1].platform = "sensor"
            /\ lc[h].unloads[2].platform = "climate"
            /\ lc[h].ret = (lc[h].unloads[1].ok /\ lc[h].unloads[2].ok)

\* C13: for every configured host, the climate entity and each of the six
\* sensors of that host report the same device identifier set, the single pair
\* (domain, "<domain>-<host>"); the climate loop's name "<domain>-<host>-climate"
\* is not among them, and the registry holds them under one device.
ExpectedIdentifiers(h) == {<<"daikin_alira", "daikin_alira-" \o h>>}

EntitiesFor(h) == {e \in entities : e.host = h}

C13_OneDevicePerHost ==
    \A h \in EntryHosts :
        /\ \A e \in EntitiesFor(h) :
             /\ e.identifiers = ExpectedIdentifiers(h)
             /\ <<"daikin_alira", "daikin_alira-" \o h \o "-climate">> \notin e.identifiers
        /\ \A e1, e2 \in EntitiesFor(h) : e1.identifiers = e2.identifiers
        /\ EntitiesFor(h) # {} =>
             Cardinality({d \in registry : {e.uid : e \in EntitiesFor(h)} \cap d.uids # {}}) = 1

C13_Witness ==
    /\ Cardinality({e \in EntitiesFor("ac.local") : e.platform = "sensor"}) = 6
    /\ Cardinality({e \in EntitiesFor("ac.local") : e.platform = "climate"}) = 1
    /\ \E d \in registry :
         /\ d.identifiers = {<<"daikin_alira", "daikin_alira-ac.local">>}
         /\ Cardinality(d.uids) = 7

====
